---------------------------- MODULE Spec2Model ----------------------------
(***************************************************************************)
(* Model of the GenAI chatbot (Project - Chatbot/script.js).               *)
(*                                                                         *)
(* The file holds two programs:                                            *)
(*   - the browser script (lines 1-129): the Client Session, with its     *)
(*     in-memory history, its localStorage copy and its requests;          *)
(*   - the Express backend (lines 130-292): the POST /chat handler with    *)
(*     its Joi validation and its three collaborators (WorldTimeAPI,       *)
(*     Tavily, Groq).                                                      *)
(*                                                                         *)
(* Spec is the backend: one request after the other goes through the       *)
(* /chat handler, each await being one step.  SpecClient is the browser    *)
(* script, with the backend seen as the answers it can give.  The model    *)
(* of the handler starts where Express hands the parsed body to the route: *)
(* the rate limiter, CORS and the body parser are library middleware in    *)
(* front of it.  SpecPair is the backend with the request before the       *)
(* current one remembered; SpecStall is the backend with collaborators     *)
(* that may never answer, the handler's own steps being fair.              *)
(*                                                                         *)
(* JavaScript strings are TLA+ strings; a value that may be a non-string   *)
(* (a JSON field, an optional property) is a record tagged with its type.  *)
(***************************************************************************)
EXTENDS Integers, Sequences, FiniteSets, TLC

VARIABLES
    \* ---- backend (module level) ----
    tavilyClient,      \* TRUE: a Tavily client was built from TAVILY_API_KEY; FALSE: null
    \* ---- backend (one /chat request: the handler's locals and position) ----
    pc,                \* "idle", "awaitTime", "awaitSearch", "awaitGroq", "done"
    body,              \* req.body
    message,           \* value.message
    history,           \* value.history, defaulted to []
    timeOutcome,       \* what the Time Service answered to this request
    searchOutcome,     \* what the Search Service answered to this request
    groqOutcome,       \* what the Language Model Service answered to this request
    currentDateTime,   \* the handler's currentDateTime
    realTimeInfo,      \* the handler's realTimeInfo
    messages,          \* the message list sent to Groq
    response,          \* the HTTP response written to res
    calls,             \* per collaborator, how often this request called it
    prev,              \* the last earlier request that was assembled
    stalled,           \* the call the handler awaits will never complete
    \* ---- browser script ----
    conversationHistory,  \* the in-memory array
    chatHistory,          \* localStorage item 'chatHistory'
    chatBox,              \* the children of #chat-box
    inFlight,             \* fetches issued whose promise has not settled
    appended,             \* every appendMessage call since the history was last empty
    events,               \* faulty answers, clears, reloads and overlapping sends so far
    overlapped            \* a send was made while a request was outstanding

serverVars == <<tavilyClient, pc, body, message, history, timeOutcome, searchOutcome,
                groqOutcome, currentDateTime, realTimeInfo, messages, response, calls, prev,
                stalled>>
clientVars == <<conversationHistory, chatHistory, chatBox, inFlight, appended,
                events, overlapped>>
vars == <<serverVars, clientVars>>

-----------------------------------------------------------------------------
(* JavaScript values and strings                                           *)

Undefined == [type |-> "undefined"]
Str(s) == [type |-> "string", v |-> s]
Num(n) == [type |-> "number", v |-> n]
IsString(x) == x.type = "string"

\* A value not yet assigned in the model.
None == [type |-> "none"]

Min(a, b) == IF a < b THEN a ELSE b
Max(a, b) == IF a > b THEN a ELSE b

\* s.charAt(i-1)
CharAt(s, i) == SubSeq(s, i, i)

\* String.prototype.repeat
RECURSIVE Repeat(_, _)
Repeat(s, n) ==
    IF n <= 0 THEN ""
    ELSE IF n = 1 THEN s
    ELSE LET half == Repeat(s, n \div 2)
         IN  IF n % 2 = 0 THEN half \o half ELSE half \o half \o s

UpperCaseLetters == "ABCDEFGHIJKLMNOPQRSTUVWXYZ"
LowerCaseLetters == "abcdefghijklmnopqrstuvwxyz"

\* toLowerCase of one character
LowerChar(c) ==
    LET at == {i \in 1..Len(UpperCaseLetters) : CharAt(UpperCaseLetters, i) = c}
    IN  IF at = {} THEN c ELSE CharAt(LowerCaseLetters, CHOOSE i \in at : TRUE)

\* String.prototype.toLowerCase
RECURSIVE ToLowerCase(_)
ToLowerCase(s) ==
    IF Len(s) = 0 THEN ""
    ELSE IF Len(s) = 1 THEN LowerChar(s)
    ELSE LET h == Len(s) \div 2
         IN  ToLowerCase(SubSeq(s, 1, h)) \o ToLowerCase(SubSeq(s, h + 1, Len(s)))

\* String.prototype.includes
Includes(s, sub) ==
    \E i \in 1..(Len(s) - Len(sub) + 1) : SubSeq(s, i, i + Len(sub) - 1) = sub

WhiteSpace == {" ", "\t", "\n"}

\* String.prototype.trimStart / trimEnd / trim
RECURSIVE TrimStart(_)
TrimStart(s) ==
    IF Len(s) > 0 /\ CharAt(s, 1) \in WhiteSpace
    THEN TrimStart(SubSeq(s, 2, Len(s)))
    ELSE s

RECURSIVE TrimEnd(_)
TrimEnd(s) ==
    IF Len(s) > 0 /\ CharAt(s, Len(s)) \in WhiteSpace
    THEN TrimEnd(SubSeq(s, 1, Len(s) - 1))
    ELSE s

Trim(s) == TrimEnd(TrimStart(s))

\* Array.prototype.slice(-n)
SliceLast(arr, n) == SubSeq(arr, Max(1, Len(arr) - n + 1), Len(arr))

\* String.prototype.slice(0, n)
SliceFirst(s, n) == SubSeq(s, 1, Min(n, Len(s)))


Digits == "0123456789"

\* String(n) for a natural number
RECURSIVE NumStr(_)
NumStr(n) ==
    IF n < 10 THEN CharAt(Digits, n + 1)
    ELSE NumStr(n \div 10) \o CharAt(Digits, (n % 10) + 1)

-----------------------------------------------------------------------------
(* Backend: constants of the code                                          *)

MaxMessageLength == 1000     \* Joi.string().trim().max(1000)
MaxHistoryItems == 20        \* Joi.array()....max(20)
HistoryWindow == 10          \* history.slice(-10)
AnswerLimit == 200           \* result.answer.slice(0, 200)

InvalidInputReply == "Invalid input."
ServerErrorReply == "Server error."
NoReply == "No reply."
UnknownTime == "Unknown time"
TimeUnavailable == "Time unavailable"
LivePrefix == "Live: "
IncorporatePrefix == "Incorporate: "
SystemPrefix == "Concise assistant. Use history. Date/time: "
TriggerKeywords == {"weather", "news", "stock", "event", "today"}

-----------------------------------------------------------------------------
(* Backend: the inputs of the model                                        *)

\* How far past a limit (message length, history length) the inputs go.
OverLimit == 1

\* A history entry as the browser script writes it.
Turn(sender, text) == [type |-> "object", sender |-> Str(sender), text |-> Str(text)]

\* A history of n entries, senders alternating, each text naming its distance
\* from the end; the entries before the last HistoryWindow carry the tag `old`,
\* the others the tag `recent`.
HistoryOf(n, old, recent) ==
    [i \in 1..n |->
        Turn(IF (n - i) % 2 = 1 THEN "user" ELSE "bot",
             (IF i <= n - HistoryWindow THEN old ELSE recent) \o NumStr(n - i))]

HistoryLengths ==
    {0, 3, 15} \cup (HistoryWindow .. HistoryWindow + 1)
               \cup (MaxHistoryItems .. MaxHistoryItems + OverLimit)

Array(items) == [type |-> "array", items |-> items]

RawHistories ==
    {Undefined}
    \cup {Array(HistoryOf(n, tags[1], tags[2])) :
            n \in HistoryLengths, tags \in {<<"a", "a">>, <<"b", "a">>}}
    \cup {Array(HistoryOf(HistoryWindow + 1, "a", "c"))}
    \cup {Array(<<Turn("user", "hi"), Turn("assistant", "hello"),
                  [type |-> "object", sender |-> Undefined, text |-> Str("no sender")],
                  [type |-> "object", sender |-> Str("system"), text |-> Undefined]>>),
          Array(<<Turn("user", "hi"), Turn("bot", "")>>),
          Array(<<Turn("user", "hi"), Str("not an object")>>)}

WeatherMessage == "What's the weather in NYC?"

RawMessages ==
    {Undefined, Num(42)}
    \cup {Str(s) : s \in {"", "  ", "hi", " hi ", WeatherMessage, "WEATHER report",
                          "Currently busy?", "stock news today", "Main Event"}}
    \cup {Str(Repeat("x", n)) : n \in MaxMessageLength .. MaxMessageLength + OverLimit}
    \cup {Str(Repeat("x", MaxMessageLength) \o Repeat(" ", n)) : n \in 1..OverLimit}

Bodies ==
    {[message |-> m, history |-> Undefined] : m \in RawMessages}
    \cup {[message |-> Str(m), history |-> h] :
            m \in {"hi", WeatherMessage}, h \in RawHistories}

IsoNow == "2026-11-04T14:19:00.123456+00:00"

\* What the Time Service can answer: the fetch or the JSON parse fails, or a
\* JSON object with or without a datetime.
TimeOutcomes ==
    {[kind |-> "reject"],
     [kind |-> "json", datetime |-> Undefined],
     [kind |-> "json", datetime |-> Str(IsoNow)]}

SunnyAnswer == "Sunny, 72F"
LongAnswer == Repeat("a", AnswerLimit) \o Repeat("Z", OverLimit)

\* What the Search Service can answer: the call fails, or a result with or
\* without an answer.
SearchOutcomes ==
    {[kind |-> "reject"],
     [kind |-> "result", answer |-> Undefined],
     [kind |-> "result", answer |-> Str("")],
     [kind |-> "result", answer |-> Str(SunnyAnswer)],
     [kind |-> "result", answer |-> Str(LongAnswer)]}

\* What the Language Model Service can answer: the fetch or the JSON parse
\* fails, a JSON object with an error, or one with (or without) a choice.
GroqOutcomes ==
    {[kind |-> "reject"],
     [kind |-> "json", error |-> [message |-> "Invalid API Key"], content |-> Undefined],
     [kind |-> "json", error |-> Undefined, content |-> Str("It is sunny.")],
     [kind |-> "json", error |-> Undefined, content |-> Str("")],
     [kind |-> "json", error |-> Undefined, content |-> Undefined]}


-----------------------------------------------------------------------------
(* Backend: the pure parts of the handler                                  *)

\* Joi.string() on an optional key: absent, or a non-empty string.
OptionalString(x) == x = Undefined \/ (IsString(x) /\ x.v # "")

\* Joi.object({ sender: Joi.string(), text: Joi.string() })
ValidItem(e) ==
    /\ e.type = "object"
    /\ OptionalString(e.sender)
    /\ OptionalString(e.text)

\* ValidMessage with the emptiness rule applied to the untrimmed string.
ValidMessage_NoTrim(m) ==
    /\ IsString(m)
    /\ m.v # ""
    /\ Len(Trim(m.v)) <= MaxMessageLength

\* message: Joi.string().trim().max(1000).required(); with Joi's default
\* convert:true the string is trimmed first and the rules see the trimmed one.
ValidMessage(m) ==
    /\ IsString(m)
    /\ Trim(m.v) # ""
    /\ Len(Trim(m.v)) <= MaxMessageLength

\* history: Joi.array().items(...).max(20).optional()
ValidHistory(h) ==
    \/ h = Undefined
    \/ /\ h.type = "array"
       /\ Len(h.items) <= MaxHistoryItems
       /\ \A i \in 1..Len(h.items) : ValidItem(h.items[i])

\* chatSchema.validate(req.body): { error, value }
ChatSchemaValidate(b) ==
    IF ValidMessage(b.message) /\ ValidHistory(b.history)
    THEN [error |-> FALSE,
          value |-> [message |-> Trim(b.message.v), history |-> b.history]]
    ELSE [error |-> TRUE]

\* const { message, history = [] } = value
HistoryOrDefault(h) == IF h = Undefined THEN <<>> ELSE h.items

\* new Date(iso).toLocaleString('en-US', { timeZone: 'Etc/UTC' })
ToLocaleString(iso) ==
    IF iso = IsoNow THEN "11/4/2026, 2:19:00 PM" ELSE "Invalid Date"

\* getCurrentDateTime(), given what the Time Service answered
GetCurrentDateTime(o) ==
    IF o.kind = "reject" THEN TimeUnavailable
    ELSE IF IsString(o.datetime) /\ o.datetime.v # ""
         THEN ToLocaleString(o.datetime.v)
         ELSE UnknownTime

\* GetRealTimeInfo with the error put into the live info instead of ''.
GetRealTimeInfo_Leak(o) ==
    IF o.kind = "reject" THEN LivePrefix \o "search failed"
    ELSE IF IsString(o.answer) /\ o.answer.v # ""
         THEN LivePrefix \o SliceFirst(o.answer.v, AnswerLimit)
         ELSE ""

\* GetRealTimeInfo without the slice(0, 200).
GetRealTimeInfo_NoCut(o) ==
    IF o.kind = "reject" THEN ""
    ELSE IF IsString(o.answer) /\ o.answer.v # ""
         THEN LivePrefix \o o.answer.v
         ELSE ""

\* getRealTimeInfo(query) once the search has answered (tavilyClient is set)
GetRealTimeInfo(o) ==
    IF o.kind = "reject" THEN ""
    ELSE IF IsString(o.answer) /\ o.answer.v # ""
         THEN LivePrefix \o SliceFirst(o.answer.v, AnswerLimit)
         ELSE ""

\* TriggerPredicate without the toLowerCase().
TriggerPredicate_CaseSensitive(m) ==
    \/ Includes(m, "current")
    \/ \E k \in TriggerKeywords : Includes(m, k)

\* The condition of the if at line 235.
TriggerPredicate(m) ==
    LET lower == ToLowerCase(m)
    IN  \/ Includes(lower, "current")
        \/ \E k \in TriggerKeywords : Includes(lower, k)

\* SearchAttempted without the guard of line 202.
SearchAttempted_NoGuard(client, m) == TriggerPredicate(m)

\* Whether the handler calls tavilyClient.search: the if at line 235 lets it
\* into getRealTimeInfo, which returns '' at line 202 when there is no client.
SearchAttempted(client, m) == TriggerPredicate(m) /\ client

\* HistoryMessages with slice(0, 10): the first entries instead of the last.
HistoryMessages_First(h) ==
    LET window == SubSeq(h, 1, Min(HistoryWindow, Len(h)))
    IN  [i \in 1..Len(window) |->
            [role |-> IF window[i].sender = Str("user") THEN "user" ELSE "assistant",
             content |-> window[i].text]]

\* HistoryMessages with slice(-11): one entry too many.
HistoryMessages_Wide(h) ==
    LET window == SliceLast(h, HistoryWindow + 1)
    IN  [i \in 1..Len(window) |->
            [role |-> IF window[i].sender = Str("user") THEN "user" ELSE "assistant",
             content |-> window[i].text]]

\* history.slice(-10).map(...)
HistoryMessages(h) ==
    LET window == SliceLast(h, HistoryWindow)
    IN  [i \in 1..Len(window) |->
            [role |-> IF window[i].sender = Str("user") THEN "user" ELSE "assistant",
             content |-> window[i].text]]

\* The template literal of the system entry.
SystemContent(dateTime, info) ==
    SystemPrefix \o dateTime \o ". "
        \o (IF info # "" THEN IncorporatePrefix \o info ELSE "")

\* const messages = [ {system}, ...historyMessages, {user} ]
BuildMessages(dateTime, info, m, h) ==
    <<[role |-> "system", content |-> Str(SystemContent(dateTime, info))]>>
        \o HistoryMessages(h)
        \o <<[role |-> "user", content |-> Str(m)]>>

\* GroqResponse answering an error object with the generic reply.
GroqResponse_Generic(o) ==
    IF o.kind = "reject" \/ o.error # Undefined
    THEN [status |-> 500, reply |-> ServerErrorReply]
    ELSE [status |-> 200,
          reply |-> IF IsString(o.content) /\ o.content.v # ""
                    THEN o.content.v ELSE NoReply]

\* The response the handler writes once Groq has answered (lines 254-282).
GroqResponse(o) ==
    IF o.kind = "reject" THEN [status |-> 500, reply |-> ServerErrorReply]
    ELSE IF o.error # Undefined
         THEN [status |-> 500, reply |-> "AI error: " \o o.error.message]
         ELSE [status |-> 200,
               reply |-> IF IsString(o.content) /\ o.content.v # ""
                         THEN o.content.v ELSE NoReply]

-----------------------------------------------------------------------------
(* Backend: the /chat handler, one step per await                          *)

NoCalls == [time |-> 0, search |-> 0, groq |-> 0]

\* What is kept of a request that was assembled, when the next one arrives.
Snapshot ==
    [message |-> message, history |-> history, timeOutcome |-> timeOutcome,
     searchOutcome |-> searchOutcome, messages |-> messages]

InitServer ==
    /\ tavilyClient \in BOOLEAN
    /\ pc = "idle"
    /\ body = None
    /\ message = ""
    /\ history = <<>>
    /\ timeOutcome = None
    /\ searchOutcome = None
    /\ groqOutcome = None
    /\ currentDateTime = ""
    /\ realTimeInfo = ""
    /\ messages = None
    /\ response = None
    /\ calls = NoCalls
    /\ prev = None
    /\ stalled = FALSE

\* Lines 220-231: validation, then the call of the Time Service.  With `keep`
\* the request before this one is remembered in prev, for comparison.
Receive(b, keep) ==
    /\ pc \in {"idle", "done"}
    /\ body' = b
    /\ prev' = IF keep /\ messages # None THEN Snapshot ELSE prev
    /\ timeOutcome' = None
    /\ searchOutcome' = None
    /\ groqOutcome' = None
    /\ currentDateTime' = ""
    /\ realTimeInfo' = ""
    /\ messages' = None
    /\ LET v == ChatSchemaValidate(b)
       IN  IF v.error
           THEN /\ response' = [status |-> 400, reply |-> InvalidInputReply]
                /\ message' = ""
                /\ history' = <<>>
                /\ calls' = NoCalls
                /\ pc' = "done"
           ELSE /\ response' = None
                /\ message' = v.value.message
                /\ history' = HistoryOrDefault(v.value.history)
                /\ calls' = [NoCalls EXCEPT !.time = 1]
                /\ pc' = "awaitTime"
    /\ UNCHANGED <<tavilyClient, stalled, clientVars>>

\* TimeReturns with the Groq call started next to the search instead of
\* after it.
TimeReturns_Eager(o) ==
    /\ pc = "awaitTime"
    /\ ~stalled
    /\ timeOutcome' = o
    /\ currentDateTime' = GetCurrentDateTime(o)
    /\ realTimeInfo' = ""
    /\ IF SearchAttempted(tavilyClient, message)
       THEN /\ calls' = [calls EXCEPT !.search = @ + 1, !.groq = @ + 1]
            /\ pc' = "awaitSearch"
            /\ UNCHANGED messages
       ELSE /\ messages' = BuildMessages(currentDateTime', "", message, history)
            /\ calls' = [calls EXCEPT !.groq = @ + 1]
            /\ pc' = "awaitGroq"
    /\ UNCHANGED <<tavilyClient, body, message, history, searchOutcome, groqOutcome,
                   response, prev, stalled, clientVars>>

\* Lines 231-267 when the Time Service has answered: the trigger, and either
\* the call of the Search Service or the assembly and the call of Groq.
TimeReturns(o) ==
    /\ pc = "awaitTime"
    /\ ~stalled
    /\ timeOutcome' = o
    /\ currentDateTime' = GetCurrentDateTime(o)
    /\ realTimeInfo' = ""
    /\ IF SearchAttempted(tavilyClient, message)
       THEN /\ calls' = [calls EXCEPT !.search = @ + 1]
            /\ pc' = "awaitSearch"
            /\ UNCHANGED messages
       ELSE /\ messages' = BuildMessages(currentDateTime', "", message, history)
            /\ calls' = [calls EXCEPT !.groq = @ + 1]
            /\ pc' = "awaitGroq"
    /\ UNCHANGED <<tavilyClient, body, message, history, searchOutcome, groqOutcome,
                   response, prev, stalled, clientVars>>

\* Lines 236-267 when the Search Service has answered.
SearchReturns(o) ==
    /\ pc = "awaitSearch"
    /\ ~stalled
    /\ searchOutcome' = o
    /\ realTimeInfo' = GetRealTimeInfo(o)
    /\ messages' = BuildMessages(currentDateTime, realTimeInfo', message, history)
    /\ calls' = [calls EXCEPT !.groq = @ + 1]
    /\ pc' = "awaitGroq"
    /\ UNCHANGED <<tavilyClient, body, message, history, timeOutcome, groqOutcome,
                   currentDateTime, response, prev, stalled, clientVars>>

\* Lines 269-282 when Groq has answered.
GroqReturns(o) ==
    /\ pc = "awaitGroq"
    /\ ~stalled
    /\ groqOutcome' = o
    /\ response' = GroqResponse(o)
    /\ pc' = "done"
    /\ UNCHANGED <<tavilyClient, body, message, history, timeOutcome, searchOutcome,
                   currentDateTime, realTimeInfo, messages, calls, prev, stalled,
                   clientVars>>

\* The fetch the handler awaits (line 190 or line 255, node-fetch, called with
\* no timeout and no abort signal) is one whose server never answers and never
\* closes the connection: its promise stays pending, nothing in the handler or
\* in the two functions runs again for this request.  The Tavily client makes
\* its request inside the library; a search it gives up on is the rejected
\* outcome of SearchReturns.
NeverAnswers ==
    /\ pc \in {"awaitTime", "awaitGroq"}
    /\ ~stalled
    /\ stalled' = TRUE
    /\ UNCHANGED <<tavilyClient, pc, body, message, history, timeOutcome, searchOutcome,
                   groqOutcome, currentDateTime, realTimeInfo, messages, response,
                   calls, prev, clientVars>>


-----------------------------------------------------------------------------
(* Browser script: constants, bounds and inputs                            *)

StorageLimit == 20           \* conversationHistory.slice(-20)
RequestWindow == 10          \* conversationHistory.slice(-10)

NoResponseText == "No response from AI."
ConnectErrorText == "Error: Could not connect to server. Check console."

\* Sends are made while fewer than MaxAppends turns were appended.
MaxAppends == 25
\* Events of one run, together: faulty answers, clears, reloads, and sends made
\* while a request is outstanding.
MaxEvents == 1
\* Requests outstanding at once.
MaxOutstanding == MaxEvents + 1

\* localStorage.getItem of a key that is not set
Null == [type |-> "null"]

\* JSON.stringify / JSON.parse of an array of {sender, text} objects: the text
\* form is kept apart from the array it encodes.
JSONStringify(arr) == [type |-> "json", text |-> arr]
JSONParse(item) == item.text

\* JSON.parse(localStorage.getItem('chatHistory')) || []   (JSON.parse(null) is null)
StoredHistory(item) == IF item = Null THEN <<>> ELSE JSONParse(item)

\* What the user can have typed when the n-th turn is about to be appended.
UserInputs(n) == {"", "   ", " q" \o NumStr(n) \o " "}

\* What a request can come back with: a 200 with a reply, a 200 with an empty
\* reply, a 4xx/5xx (the backend's 500 with its reply), or a rejected fetch.
PlainReply(r) == [kind |-> "ok", reply |-> "re:" \o r.message]
FaultyAnswers ==
    {[kind |-> "ok", reply |-> ""],
     [kind |-> "notok", reply |-> ServerErrorReply],
     [kind |-> "reject"]}

-----------------------------------------------------------------------------
(* Browser script: the functions                                           *)

Bubble(sender, text) == [kind |-> "message", sender |-> sender, text |-> text]
Thinking == [kind |-> "thinking"]

\* The page as the script sees it.
Page == [history |-> conversationHistory, stored |-> chatHistory,
         box |-> chatBox, log |-> appended]

\* StoredCopy with slice(0, 20): the first entries instead of the last.
StoredCopy_First(hist) ==
    JSONStringify(SubSeq(hist, 1, Min(StorageLimit, Len(hist))))

\* The value written to localStorage by appendMessage (line 44).
StoredCopy(hist) == JSONStringify(SliceLast(hist, StorageLimit))

\* appendMessage(sender, text), lines 25-45
AppendMessage(p, sender, text) ==
    LET hist == Append(p.history, Turn(sender, text))
    IN  [history |-> hist,
         stored |-> StoredCopy(hist),
         box |-> Append(p.box, Bubble(sender, text)),
         log |-> Append(p.log, Turn(sender, text))]

\* showThinking(), lines 50-61
ShowThinking(box) == Append(box, Thinking)

\* hideThinking(), lines 63-66: getElementById finds the first such element
HideThinking(box) ==
    LET at == {i \in 1..Len(box) : box[i] = Thinking}
    IN  IF at = {} THEN box
        ELSE LET first == CHOOSE i \in at : \A j \in at : i <= j
             IN  SubSeq(box, 1, first - 1) \o SubSeq(box, first + 1, Len(box))

\* The body of the fetch (lines 87-90).
RequestBody(m, hist) == [message |-> m, history |-> SliceLast(hist, RequestWindow)]

\* req.body of the handler for a fetch body of the script: JSON.stringify in
\* the browser (line 87), bodyParser.json() in the backend (line 172).
WireBody(b) == [message |-> Str(b.message), history |-> Array(b.history)]

\* The message list the handler assembles (lines 222-252) for the fetch body
\* b, with the date/time and the live info it has got; None when the body is
\* rejected.
Assembled(b, dateTime, info) ==
    LET v == ChatSchemaValidate(WireBody(b))
    IN  IF v.error THEN None
        ELSE BuildMessages(dateTime, info, v.value.message,
                           HistoryOrDefault(v.value.history))

\* IssueFetch with the request sent twice (the click and the keypress
\* listeners both answering one send).
IssueFetch_Twice(pending, id, m, hist) ==
    pending \cup {[id |-> i, message |-> m, body |-> RequestBody(m, hist)] :
                    i \in {id, id + 1}}

\* The fetch added to those outstanding.
IssueFetch(pending, id, m, hist) ==
    pending \cup {[id |-> id, message |-> m, body |-> RequestBody(m, hist)]}

\* conversationHistory.forEach(msg => appendMessage(msg.sender, msg.text)):
\* forEach visits the indices below the length the array had at the start.
RECURSIVE LoadLoop(_, _, _)
LoadLoop(p, i, n) ==
    IF i > n THEN p
    ELSE LoadLoop(AppendMessage(p, p.history[i].sender.v, p.history[i].text.v), i + 1, n)

\* ReplyText without the fallback of line 97: the reply as it came.
ReplyText_Raw(o) == IF o.kind = "ok" THEN o.reply ELSE ConnectErrorText

\* The reply turn of a settled request: lines 93-101.
ReplyText(o) ==
    IF o.kind = "ok"
    THEN (IF o.reply # "" THEN o.reply ELSE NoResponseText)
    ELSE ConnectErrorText

FreeIds == {i \in 1..MaxOutstanding : \A r \in inFlight : r.id # i}

InitClient ==
    /\ conversationHistory = <<>>
    /\ chatHistory = Null
    /\ chatBox = <<>>
    /\ inFlight = {}
    /\ appended = <<>>
    /\ events = 0
    /\ overlapped = FALSE

SetPage(p) ==
    /\ conversationHistory' = p.history
    /\ chatHistory' = p.stored
    /\ chatBox' = p.box
    /\ appended' = p.log

\* sendMessage(), lines 71-91, up to the await of the fetch.
SendMessage(raw) ==
    /\ Len(appended) < MaxAppends
    /\ inFlight = {} \/ events < MaxEvents
    /\ LET m == Trim(raw)
           p == AppendMessage(Page, "user", m)
       IN  IF m = ""
           THEN UNCHANGED clientVars
           ELSE /\ SetPage([p EXCEPT !.box = ShowThinking(p.box)])
                /\ inFlight' = IssueFetch(inFlight, CHOOSE i \in FreeIds : TRUE,
                                          m, p.history)
                /\ overlapped' = (overlapped \/ inFlight # {})
                /\ events' = IF inFlight = {} THEN events ELSE events + 1
    /\ UNCHANGED serverVars

\* sendMessage(), lines 93-102, when the fetch of request r has settled with o.
Settle(r, o) ==
    /\ r \in inFlight
    /\ inFlight' = inFlight \ {r}
    /\ SetPage(AppendMessage([Page EXCEPT !.box = HideThinking(chatBox)],
                             "bot", ReplyText(o)))
    /\ UNCHANGED <<overlapped, serverVars>>

\* The request comes back with the backend's reply.
Reply(r) ==
    /\ Settle(r, PlainReply(r))
    /\ UNCHANGED events

\* The request comes back empty, with an error status, or not at all.
Fault(r, o) ==
    /\ events < MaxEvents
    /\ events' = events + 1
    /\ Settle(r, o)

\* ClearChat without line 118: the array and the chat box are emptied, the
\* localStorage item is left.
ClearChat_MemoryOnly ==
    /\ events < MaxEvents
    /\ events' = events + 1
    /\ chatBox' = <<>>
    /\ conversationHistory' = <<>>
    /\ appended' = <<>>
    /\ UNCHANGED <<chatHistory, inFlight, overlapped, serverVars>>

\* The clear button's listener, lines 117-121.
ClearChat ==
    /\ events < MaxEvents
    /\ events' = events + 1
    /\ chatHistory' = Null
    /\ chatBox' = <<>>
    /\ conversationHistory' = <<>>
    /\ appended' = <<>>
    /\ UNCHANGED <<inFlight, overlapped, serverVars>>

\* The page is loaded again: the script's state is gone, the DOMContentLoaded
\* listener (lines 5-20) runs on what localStorage holds.
Reload ==
    /\ events < MaxEvents
    /\ events' = events + 1
    /\ LET start == StoredHistory(chatHistory)
       IN  SetPage(LoadLoop([history |-> start, stored |-> chatHistory,
                             box |-> <<>>, log |-> appended],
                            1, Len(start)))
    /\ inFlight' = {}
    /\ UNCHANGED <<overlapped, serverVars>>

-----------------------------------------------------------------------------
(* Specifications                                                          *)

Init == InitServer /\ InitClient

Next ==
    \/ \E b \in Bodies : Receive(b, FALSE)
    \/ \E o \in TimeOutcomes : TimeReturns(o)
    \/ \E o \in SearchOutcomes : SearchReturns(o)
    \/ \E o \in GroqOutcomes : GroqReturns(o)

\* The backend.
Spec == Init /\ [][Next]_vars

\* The requests and answers of SpecPair: two messages, every history, of the
\* Time and Search Service one failure and one answer, of Groq one failure.
PairBodies ==
    {[message |-> Str(m), history |-> h] :
        m \in {"hi", WeatherMessage}, h \in RawHistories}
PairTimeOutcomes == {o \in TimeOutcomes : o.kind = "reject" \/ o.datetime # Undefined}
PairSearchOutcomes ==
    {o \in SearchOutcomes : o.kind = "reject" \/ o.answer = Str(SunnyAnswer)}
PairGroqOutcomes == {o \in GroqOutcomes : o.kind = "reject"}

InitPair == Init /\ tavilyClient = TRUE

NextPair ==
    \/ \E b \in PairBodies : Receive(b, TRUE)
    \/ \E o \in PairTimeOutcomes : TimeReturns(o)
    \/ \E o \in PairSearchOutcomes : SearchReturns(o)
    \/ \E o \in PairGroqOutcomes : GroqReturns(o)

\* The backend serving one request after another, each remembered while the
\* next is served.
SpecPair == InitPair /\ [][NextPair]_vars

\* A step of the handler after an await: the continuation of a promise that
\* has settled.
Resume ==
    \/ \E o \in TimeOutcomes : TimeReturns(o)
    \/ \E o \in SearchOutcomes : SearchReturns(o)
    \/ \E o \in GroqOutcomes : GroqReturns(o)

NextStall ==
    \/ \E b \in Bodies : Receive(b, FALSE)
    \/ Resume
    \/ NeverAnswers

\* The handler leaves the await it is at: what every step of Resume does, and
\* no other step.
Continue ==
    /\ pc \in {"awaitTime", "awaitSearch", "awaitGroq"}
    /\ ~stalled
    /\ pc' \in {"awaitSearch", "awaitGroq", "done"} \ {pc}

\* The backend with collaborators that may never answer.  A call that is
\* answered settles the awaited promise, and the event loop then runs the
\* continuation: the handler leaving an await whose call is answered is
\* weakly fair.  Nothing makes a call complete that is not answered.
SpecStall == Init /\ [][NextStall]_vars /\ WF_pc(Continue)

InitPage == InitClient /\ InitServer /\ tavilyClient = TRUE

NextClient ==
    \/ \E raw \in UserInputs(Len(appended) + 1) : SendMessage(raw)
    \/ \E r \in inFlight : Reply(r)
    \/ \E r \in inFlight, o \in FaultyAnswers : Fault(r, o)
    \/ ClearChat
    \/ Reload

\* The browser script.
SpecClient == InitPage /\ [][NextClient]_vars


-----------------------------------------------------------------------------
(* Properties of the backend                                               *)

\* toUpperCase of one character
UpperChar(c) ==
    LET at == {i \in 1..Len(LowerCaseLetters) : CharAt(LowerCaseLetters, i) = c}
    IN  IF at = {} THEN c ELSE CharAt(UpperCaseLetters, CHOOSE i \in at : TRUE)

\* The lower-case word w occurs in s, each letter in either case.
ContainsAnyCase(s, w) ==
    \E i \in 1..(Len(s) - Len(w) + 1) :
        \A j \in 1..Len(w) :
            CharAt(s, i + j - 1) \in {CharAt(w, j), UpperChar(CharAt(w, j))}

\* The handler is past the if at line 235.
TriggerDecided == pc \in {"awaitSearch", "awaitGroq", "done"} /\ timeOutcome # None

\* C1: the message list sent to the Language Model Service is one system
\* entry, then the last min(10, |history|) history entries in their order, the
\* sender "user" mapped to role "user" and any other to "assistant", then one
\* "user" entry whose content is the message of the validated request (the
\* request's message, trimmed).
C1_MessageList ==
    messages # None =>
        LET n == Min(10, Len(history))
            last == Len(messages)
        IN  /\ last = n + 2
            /\ n <= 10
            /\ messages[1].role = "system"
            /\ \A i \in 2..last : messages[i].role # "system"
            /\ messages[last] = [role |-> "user", content |-> Str(message)]
            /\ message = Trim(body.message.v)
            /\ history = (IF body.history = Undefined THEN <<>> ELSE body.history.items)
            /\ \A i \in 1..n :
                 LET e == history[Len(history) - n + i]
                 IN  /\ messages[i + 1].content = e.text
                     /\ messages[i + 1].role =
                          (IF IsString(e.sender) /\ e.sender.v = "user"
                           THEN "user" ELSE "assistant")

C1_Witness ==
    /\ pc = "awaitGroq"
    /\ Len(history) = 15
    /\ Len(messages) = 12
    /\ messages[2].content = history[6].text
    /\ messages[12].content = Str(WeatherMessage)

\* The requests C2 says are rejected, the length taken of the message as sent.
RejectedAsStated(b) ==
    \/ IsString(b.message) /\ (Trim(b.message.v) = "" \/ Len(b.message.v) > 1000)
    \/ b.history # Undefined /\ Len(b.history.items) > 20

\* The same, the length taken of the trimmed message.
RejectedAfterTrim(b) ==
    \/ IsString(b.message) /\ (Trim(b.message.v) = "" \/ Len(Trim(b.message.v)) > 1000)
    \/ b.history # Undefined /\ Len(b.history.items) > 20

InvalidInputResponse == [status |-> 400, reply |-> "Invalid input."]

\* C2 as stated: a request whose message is empty after trimming or longer
\* than 1000 characters, or whose history has more than 20 entries, is answered
\* 400 {reply: "Invalid input."} and no collaborator is called.
C2_AsStated ==
    (body # None /\ RejectedAsStated(body)) =>
        (response = InvalidInputResponse /\ calls = NoCalls)

\* C2, amended: a request whose message is empty after trimming or, once
\* trimmed, longer than 1000 characters, or whose history has more than 20
\* entries, is answered 400 {reply: "Invalid input."} and no collaborator is
\* called.
C2_Rejected ==
    (body # None /\ RejectedAfterTrim(body)) =>
        (response = InvalidInputResponse /\ calls = NoCalls /\ messages = None)

C2_Witness ==
    /\ pc = "done"
    /\ IsString(body.message)
    /\ Len(Trim(body.message.v)) = 1001
    /\ response = InvalidInputResponse
    /\ calls = NoCalls

TimeFailed(o) == o.kind = "reject" \/ ~IsString(o.datetime)
SearchFailed(o) == o.kind = "reject" \/ ~IsString(o.answer) \/ o.answer.v = ""
GroqFailed(o) == o.kind = "reject" \/ o.error # Undefined

\* C3: the status of a response depends only on the validation result and on
\* the Language Model Service outcome; a failure of the Time Service or of the
\* Search Service becomes a fallback value (a time sentinel, an empty live
\* info), the Language Model Service is still called, and nothing is answered
\* before it has returned.
C3_SoftFail ==
    /\ (timeOutcome # None /\ TimeFailed(timeOutcome)) =>
           currentDateTime \in {"Time unavailable", "Unknown time"}
    /\ (searchOutcome # None /\ SearchFailed(searchOutcome)) => realTimeInfo = ""
    /\ timeOutcome # None => pc \in {"awaitSearch", "awaitGroq", "done"}
    /\ searchOutcome # None => pc \in {"awaitGroq", "done"}
    /\ pc \in {"awaitTime", "awaitSearch", "awaitGroq"} => response = None
    /\ pc = "awaitGroq" => (calls.groq = 1 /\ messages # None)
    /\ pc = "done" =>
           /\ (groqOutcome = None) = ChatSchemaValidate(body).error
           /\ groqOutcome # None => (timeOutcome # None /\ calls.groq = 1)
           /\ response.status =
                 (IF groqOutcome = None THEN 400
                  ELSE IF GroqFailed(groqOutcome) THEN 500 ELSE 200)

C3_Witness ==
    /\ pc = "done"
    /\ timeOutcome # None /\ timeOutcome.kind = "reject"
    /\ searchOutcome # None /\ searchOutcome.kind = "reject"
    /\ response.status = 200

\* C4: for a valid request the response follows the Language Model Service
\* outcome: an error object gives 500 with a reply carrying the error's
\* message, a failed call gives 500 with "Server error.", anything else gives
\* 200 with the model text, or "No reply." when the text is absent or empty.
C4_Response ==
    (pc = "done" /\ groqOutcome # None) =>
        IF groqOutcome.kind = "reject"
        THEN response = [status |-> 500, reply |-> "Server error."]
        ELSE IF groqOutcome.error # Undefined
             THEN /\ response.status = 500
                  /\ Includes(response.reply, groqOutcome.error.message)
             ELSE /\ response.status = 200
                  /\ response.reply =
                        (IF IsString(groqOutcome.content) /\ groqOutcome.content.v # ""
                         THEN groqOutcome.content.v ELSE "No reply.")

C4_Witness ==
    /\ pc = "done"
    /\ groqOutcome # None /\ groqOutcome.kind = "json"
    /\ groqOutcome.error # Undefined
    /\ response.status = 500
    /\ response.reply = "AI error: Invalid API Key"

\* The message holds none of the trigger words and not "current", in any case.
NoTriggerWord(m) ==
    \A w \in {"weather", "news", "stock", "event", "today", "current"} :
        ~ContainsAnyCase(m, w)

\* C5 as stated: for a message containing "weather" (any case) the Search
\* Service call is attempted; for a message with none of the trigger words and
\* without "current" it is not.
C5_AsStated ==
    TriggerDecided =>
        /\ ContainsAnyCase(message, "weather") => calls.search = 1
        /\ NoTriggerWord(message) => calls.search = 0

\* C5, amended: when the Search Service is configured, for a message
\* containing "weather" (any case) the Search Service call is attempted; for a
\* message with none of the trigger words and without "current" it is not.
C5_Trigger ==
    TriggerDecided =>
        /\ (tavilyClient /\ ContainsAnyCase(message, "weather")) => calls.search = 1
        /\ NoTriggerWord(message) => calls.search = 0

C5_Witness ==
    /\ tavilyClient
    /\ pc = "awaitSearch"
    /\ message = "WEATHER report"
    /\ calls.search = 1

\* C6: without a search credential the live info is the empty string for
\* every message, the Search Service is never called, and the system entry
\* holds no "Incorporate:" clause.
C6_Unconfigured ==
    ~tavilyClient =>
        /\ realTimeInfo = ""
        /\ calls.search = 0
        /\ searchOutcome = None
        /\ pc # "awaitSearch"
        /\ messages # None => ~Includes(messages[1].content.v, "Incorporate:")

C6_Witness ==
    /\ ~tavilyClient
    /\ pc = "done"
    /\ message = WeatherMessage
    /\ messages # None
    /\ response.status = 200

\* C7: when the search was made and returned a non-empty answer A, the system
\* entry holds "Live: " followed by the first min(|A|, 200) characters of A and
\* no more of A; when it failed or returned no answer, the live info is the
\* empty string and the system entry holds no "Incorporate:" clause.
C7_LiveInfo ==
    (searchOutcome # None /\ messages # None) =>
        LET sys == messages[1].content.v
        IN  IF searchOutcome.kind = "result" /\ IsString(searchOutcome.answer)
                                             /\ searchOutcome.answer.v # ""
            THEN LET A == searchOutcome.answer.v
                     k == IF Len(A) < 200 THEN Len(A) ELSE 200
                 IN  /\ realTimeInfo = "Live: " \o SubSeq(A, 1, k)
                     /\ Includes(sys, "Incorporate: " \o realTimeInfo)
                     /\ Len(sys) = Len(SystemPrefix) + Len(currentDateTime) + 2
                                       + Len("Incorporate: ") + 6 + k
                     /\ A = "Sunny, 72F" => Includes(sys, "Live: Sunny, 72F")
            ELSE /\ realTimeInfo = ""
                 /\ ~Includes(sys, "Incorporate:")

C7_Witness ==
    /\ pc = "awaitGroq"
    /\ searchOutcome # None /\ searchOutcome.kind = "result"
    /\ searchOutcome.answer = Str(LongAnswer)
    /\ Len(realTimeInfo) = 206
    /\ message = WeatherMessage

\* The histories agree on their last 10 entries (and on which of them exist).
SameLastTen(h1, h2) ==
    \A k \in 1..10 :
        /\ (k <= Len(h1)) = (k <= Len(h2))
        /\ k <= Len(h1) => h1[Len(h1) - k + 1] = h2[Len(h2) - k + 1]

\* C9: two valid requests with the same message and the same Time and Search
\* results, whose histories differ only before their last 10 entries, get the
\* same message list; nothing of the earlier request changes the later one's.
C9_WindowOnly ==
    (prev # None /\ messages # None
        /\ prev.message = message
        /\ prev.timeOutcome = timeOutcome
        /\ prev.searchOutcome = searchOutcome
        /\ SameLastTen(prev.history, history))
    => messages = prev.messages

C9_Witness ==
    /\ prev # None /\ messages # None
    /\ prev.message = message
    /\ prev.timeOutcome = timeOutcome
    /\ prev.searchOutcome = searchOutcome
    /\ searchOutcome # None
    /\ SameLastTen(prev.history, history)
    /\ Len(prev.history) = 15 /\ Len(history) = 11
    /\ prev.history[5] # history[1]
    /\ messages = prev.messages


\* The calls of the current request that were made and have not returned.
OutstandingCalls ==
    {c \in {"time", "search", "groq"} :
        /\ calls[c] > 0
        /\ (CASE c = "time" -> timeOutcome
              [] c = "search" -> searchOutcome
              [] c = "groq" -> groqOutcome) = None}

\* C14: within one valid request the collaborator calls are sequential: the
\* Search Service call is made only after the Time Service call has returned,
\* the Language Model Service call only after the Time Service call and, when
\* a search was made, the Search Service call have returned; each is called
\* at most once, and never two of them at a time.
C14_Sequential ==
    /\ \A c \in {"time", "search", "groq"} : calls[c] \in {0, 1}
    /\ calls.search = 1 => (calls.time = 1 /\ timeOutcome # None)
    /\ calls.groq = 1 =>
          /\ calls.time = 1 /\ timeOutcome # None
          /\ calls.search = 1 => searchOutcome # None
          /\ SearchAttempted(tavilyClient, message) => calls.search = 1
    /\ Cardinality(OutstandingCalls) <= 1
    /\ (pc = "awaitTime") = (OutstandingCalls = {"time"})
    /\ (pc = "awaitSearch") = (OutstandingCalls = {"search"})
    /\ (pc = "awaitGroq") = (OutstandingCalls = {"groq"})

C14_Witness ==
    /\ pc = "awaitGroq"
    /\ calls = [time |-> 1, search |-> 1, groq |-> 1]
    /\ timeOutcome # None /\ searchOutcome # None
    /\ groqOutcome = None
    /\ OutstandingCalls = {"groq"}


-----------------------------------------------------------------------------
(* Properties of the browser script                                        *)

\* The sequence localStorage holds.
PersistedTurns == StoredHistory(chatHistory)

\* C8: after n appended turns (n counted from the last time the history was
\* empty, every call of appendMessage counting) the persisted sequence has
\* length min(n, 20) and is the most recent min(n, 20) appended turns in their
\* order; it never exceeds 20 entries.
C8_Persisted ==
    LET n == Len(appended)
        len == Len(PersistedTurns)
    IN  /\ len = (IF n < 20 THEN n ELSE 20)
        /\ len <= 20
        /\ \A k \in 1..len : PersistedTurns[k] = appended[n - len + k]

C8_Witness ==
    /\ events = 0
    /\ Len(appended) = 25
    /\ Len(conversationHistory) = 25
    /\ Len(PersistedTurns) = 20
    /\ PersistedTurns[1] = appended[6]
    /\ PersistedTurns[1] # appended[1]
    /\ PersistedTurns[20] = appended[25]

\* C10 as stated: in every reachable state at most one request is sent and
\* not yet settled.
C10_AsStated == Cardinality(inFlight) <= 1

\* C10, amended: as long as every send was made with no request outstanding
\* (the default flow) at most one request is sent and not yet settled; the
\* script itself does not hold back a send while a request is outstanding.
C10_DefaultFlow == ~overlapped => Cardinality(inFlight) <= 1

C10_Witness ==
    /\ ~overlapped
    /\ Cardinality(inFlight) = 1
    /\ Len(conversationHistory) = 3
    /\ chatBox[Len(chatBox)] = Thinking

\* The in-memory history and the persisted copy are both empty or both not.
EmptiedTogether == (conversationHistory = <<>>) <=> (PersistedTurns = <<>>)

\* C11: a clear empties the in-memory history and the persisted copy in one
\* step: the step that removes the persisted item leaves the in-memory history
\* (and the chat box) empty, the step that empties a non-empty in-memory
\* history leaves nothing persisted, and no state any handler runs in has one
\* of the two emptied and the other not.
C11_ClearAtOnce ==
    /\ []EmptiedTogether
    /\ [][/\ (chatHistory # Null /\ chatHistory' = Null) =>
               (conversationHistory' = <<>> /\ chatBox' = <<>>)
          /\ (conversationHistory # <<>> /\ conversationHistory' = <<>>) =>
               chatHistory' = Null]_vars

\* A request was sent and the chat cleared before it settled.
C11_Witness ==
    /\ events = 1
    /\ Cardinality(inFlight) = 1
    /\ \A r \in inFlight : Len(r.body.history) = 1
    /\ conversationHistory = <<>>
    /\ chatHistory = Null
    /\ chatBox = <<>>

\* The thinking placeholders in the chat box.
ThinkingCount(box) == Cardinality({i \in 1..Len(box) : box[i] = Thinking})

\* What request r can come back with.
Answers(r) == {PlainReply(r)} \cup FaultyAnswers

\* C12: a send appends the user's turn in the step that issues the request
\* (so before any response to it is handled); when the Chat Endpoint returns a
\* response (its replies are never empty), one thinking placeholder is removed
\* and the returned reply is appended as the reply turn; when the fetch fails
\* at transport level, the placeholder is removed and the connection-error
\* text is appended instead; the request is then settled, one turn appended.
C12_AsStated ==
    [][/\ \A r \in inFlight' \ inFlight :
            /\ inFlight' = inFlight \cup {r}
            /\ conversationHistory' =
                   Append(conversationHistory, Turn("user", r.message))
       /\ \A r \in inFlight :
            \A o \in {a \in Answers(r) : a.kind = "reject" \/ a.reply # ""} :
                Settle(r, o) =>
                    /\ inFlight' = inFlight \ {r}
                    /\ ThinkingCount(chatBox') = Max(ThinkingCount(chatBox) - 1, 0)
                    /\ conversationHistory' =
                           Append(conversationHistory,
                                  Turn("bot", IF o.kind = "reject"
                                              THEN ConnectErrorText ELSE o.reply))]_vars

\* The same with what the script does with a response that is not ok: the
\* reply of a 4xx/5xx response is dropped for the connection-error text, an
\* empty reply of a 200 is replaced by "No response from AI.".
C12_OkOnly ==
    [][/\ \A r \in inFlight' \ inFlight :
            /\ inFlight' = inFlight \cup {r}
            /\ conversationHistory' =
                   Append(conversationHistory, Turn("user", r.message))
       /\ \A r \in inFlight :
            \A o \in Answers(r) :
                Settle(r, o) =>
                    /\ inFlight' = inFlight \ {r}
                    /\ ThinkingCount(chatBox') = Max(ThinkingCount(chatBox) - 1, 0)
                    /\ conversationHistory' =
                           Append(conversationHistory,
                                  Turn("bot", IF o.kind # "ok" THEN ConnectErrorText
                                              ELSE IF o.reply = "" THEN NoResponseText
                                              ELSE o.reply))]_vars

\* C15: a page load restores the conversation unchanged: with P the persisted
\* sequence before the load (at most 20 turns), after the startup code has run
\* the in-memory history is P and the persisted sequence is P.
C15_AsStated ==
    [][Reload => (/\ Len(PersistedTurns) <= 20
                  /\ conversationHistory' = PersistedTurns
                  /\ PersistedTurns' = PersistedTurns)]_vars

\* What the startup code leaves: every turn of P twice in memory, and the
\* last 20 turns of that persisted.
C15_Doubled ==
    [][Reload => (/\ conversationHistory' = PersistedTurns \o PersistedTurns
                  /\ PersistedTurns' = SliceLast(conversationHistory', 20)
                  /\ Len(chatBox') = Len(PersistedTurns))]_vars

\* The date/time and live info of the end-to-end properties.
FlowContexts ==
    {<<dt, info>> : dt \in {TimeUnavailable, ToLocaleString(IsoNow)},
                    info \in {"", LivePrefix \o SunnyAnswer}}

\* C16: for every request the script has issued, the history it attached
\* does not end with the turn being sent, and the message list the handler
\* assembles from the request holds the new user message once, as its last
\* entry: the entry before the last is not a copy of it.
C16_AsStated ==
    \A r \in inFlight :
        LET copy == [role |-> "user", content |-> Str(r.message)]
            sent == r.body.history
        IN  /\ sent # <<>> => sent[Len(sent)] # Turn("user", r.message)
            /\ \A c \in FlowContexts :
                 LET msgs == Assembled(r.body, c[1], c[2])
                 IN  /\ msgs # None
                     /\ msgs[Len(msgs)] = copy
                     /\ msgs[Len(msgs) - 1] # copy

\* What the script sends: the attached history ends with the turn being
\* sent, and the assembled message list ends with the new user message twice.
C16_SentTwice ==
    \A r \in inFlight :
        LET copy == [role |-> "user", content |-> Str(r.message)]
            sent == r.body.history
        IN  /\ sent # <<>> /\ sent[Len(sent)] = Turn("user", r.message)
            /\ \A c \in FlowContexts :
                 LET msgs == Assembled(r.body, c[1], c[2])
                 IN  /\ msgs # None
                     /\ Len(msgs) = Len(sent) + 2
                     /\ msgs[Len(msgs)] = copy
                     /\ msgs[Len(msgs) - 1] = copy

\* C17: when the chat was cleared while a request was outstanding (the
\* history is empty and a request is in flight), the history and the
\* persisted copy stay empty until the next send: a step that puts a turn in
\* either of them is a step that issues a request.
C17_AsStated ==
    [][(conversationHistory = <<>> /\ PersistedTurns = <<>> /\ inFlight # {})
         => \/ conversationHistory' = <<>> /\ PersistedTurns' = <<>>
            \/ inFlight' \ inFlight # {}]_vars

\* What the script does: the request sent before the clear settles after
\* it, and its reply or error turn becomes the first turn of the history and
\* of the persisted copy.
C17_StaleTurn ==
    [][\A r \in inFlight : \A o \in Answers(r) :
          (conversationHistory = <<>> /\ Settle(r, o)) =>
              /\ conversationHistory' = <<Turn("bot", ReplyText(o))>>
              /\ PersistedTurns' = conversationHistory'
              /\ chatBox' = <<Bubble("bot", ReplyText(o))>>]_vars

\* C18: every request the script has issued carries a history that passes
\* the handler's history validation: at most 20 entries (at most 10, as
\* sliced), each an object with a non-empty string sender and a non-empty
\* string text; the request is not rejected because of its history.
C18_HistoryValid ==
    \A r \in inFlight :
        LET sent == r.body.history
        IN  /\ Len(sent) <= 20
            /\ Len(sent) <= RequestWindow
            /\ \A i \in 1..Len(sent) :
                 /\ IsString(sent[i].sender) /\ sent[i].sender.v # ""
                 /\ IsString(sent[i].text) /\ sent[i].text.v # ""
            /\ ValidHistory(WireBody(r.body).history)
            /\ ~ChatSchemaValidate(WireBody(r.body)).error

\* A request with a full window, one of its turns the error turn of a failed
\* request.
C18_Witness ==
    \E r \in inFlight :
        /\ Len(r.body.history) = RequestWindow
        /\ \E i \in 1..RequestWindow :
              r.body.history[i] = Turn("bot", ConnectErrorText)
        /\ Len(conversationHistory) > StorageLimit
        /\ ValidHistory(WireBody(r.body).history)

-----------------------------------------------------------------------------
(* Properties of the backend with collaborators that may never answer      *)

\* C13: every request that passes validation eventually receives an HTTP
\* response, also when the collaborator the handler waits for never answers.
C13_AsStated == (pc = "awaitTime") ~> (pc = "done" /\ response # None)

=============================================================================
